---- MODULE Spec2Model ----
(***************************************************************************)
(* Model of the notebook unit_testing.ipynb: the runner test(klass), which *)
(* loads one TestCase instance per test method of klass and runs the suite *)
(* with unittest's TextTestRunner, and the statements the notebook's test  *)
(* classes are made of (assert_that, 1/0, setUp, addCleanup, open, read,   *)
(* subTest, with open).  klass ranges over the classes that can be built   *)
(* from those statements: a class has up to MaxMethods test methods and one *)
(* of the notebook's three setUp procedures; a method body is any sequence *)
(* of the notebook's statements; one run executes at most MaxSteps of them. *)
(* The runner's behaviour on a klass is that of unittest.TestCase.run as   *)
(* called from runner.run(suite).                                           *)
(***************************************************************************)
EXTENDS Integers, Sequences, FiniteSets, TLC

VARIABLES
    klass,       \* the class handed to test(): [n, setUp]
    pc,          \* position of the runner: load, run, setUp, body, cleanups, done
    cur,         \* index (in sorted name order) of the test being run, 0 before
    inst,        \* the suite: one TestCase instance per test method
    locals,      \* local variables of the running test method (fpin)
    scope,       \* stack of open `with` blocks of the running body
    loopIdx,     \* iterations of `for length in (1, 4, 8)` started so far
    steps,       \* statements executed by the running body
    files,       \* open file objects
    outcome,     \* unittest's _Outcome of the running test
    result,      \* the TestResult: testsRun, failures, errors, successes
    summary,     \* what the runner prints at the end
    cleanupLog,  \* history: cleanups executed, in order
    hist         \* history: what happened to each test

vars == <<klass, pc, cur, inst, locals, scope, loopIdx, steps, files,
          outcome, result, summary, cleanupLog, hist>>

(* ------------------------------ bounds --------------------------------- *)
MaxMethods == 2
MaxSteps == 3

(* ----------------------- the notebook's constants ---------------------- *)
\* for length in (1, 4, 8)
Lengths == <<1, 4, 8>>
\* self.fpin.read(4) and self.fpin.read(8)
ReadLengths == {4, 8}
\* equal_to(0) and equal_to(2) are the notebook's, compared with 1 so that
\* they fail; equal_to(1) is the assertion that holds, which the notebook
\* leaves out ("Every single test is supposed to fail!")
Expected == {0, 1, 2}
\* assert_that raises AssertionError, unittest's failureException
failureException == "AssertionError"
\* mutant: a runner built with failfast=True
failfastOn == TRUE

\* runner = unittest.TextTestRunner(): failfast is left at its default
failfast == FALSE

SetUps == {"none", "value", "fpin"}

(* ------------------------ the loader and instances --------------------- *)
\* loadTestsFromTestCase(klass): map(klass, sorted names)
NewInstance == [value |-> <<>>, fpin |-> FALSE, cleanups |-> <<>>, nreg |-> 0]

\* mutant: every test of the suite runs on one shared instance
SharedInstance(i) == 1

\* the instance the i-th test of the suite runs on: one per method name
Instance(i) == i

NewOutcome == [success |-> TRUE, errors |-> <<>>]

NewHist == [setUp |-> "no", body |-> FALSE, bodyExc |-> "None",
            subFailed |-> {},
            cleanupRaised |-> "no", finished |-> FALSE]

self == Instance(cur)

(* ------------------------- unittest's executor ------------------------- *)
\* testPartExecutor's except branch: the exception is kept with the part it
\* came from (the test case: sub = <<>>, or a subtest: sub = <<label>>)
Catch(out, sub, exc) ==
    [success |-> FALSE,
     errors |-> Append(out.errors, [sub |-> sub, exc |-> exc])]

\* mutant: an executor that catches only the failure exception
CaughtFailuresOnly(exc) == exc = failureException

\* testPartExecutor catches every exception but KeyboardInterrupt, which no
\* statement of the notebook raises
Caught(exc) == exc # "KeyboardInterrupt"

\* what an exception raised by a statement of the body does: it leaves the
\* open `with open(...)` block, closing its file, and is caught by the
\* enclosing subTest if there is one, else by the executor around the body
InSubTest == scope # <<>> /\ scope[1].kind = "subTest"
InWith == scope # <<>> /\ scope[Len(scope)].kind = "with"

WithFiles == {f \in files : f.var = "with"}

\* mutant: a block that leaves its file open
keepWith(fs) == fs

\* leaving `with open(...) as fpin:`, normally or by an exception, closes fpin
closeWith(fs) == {f \in fs : f.var # "with"}

\* the subTest context manager after its executor caught an exception
SubTestStops == failfast

RaiseWith(fs, exc) ==
    IF InSubTest
    THEN /\ outcome' = Catch(outcome, <<scope[1].label>>, exc)
         /\ scope' = <<>>
         /\ files' = closeWith(fs)
         /\ pc' = IF ~Caught(exc) THEN "aborted"
                  ELSE IF SubTestStops THEN "cleanups" ELSE "body"
         /\ hist' = [hist EXCEPT ![cur].subFailed =
                        IF exc = failureException
                        THEN @ \cup {scope[1].label} ELSE @]
    ELSE /\ outcome' = Catch(outcome, <<>>, exc)
         /\ scope' = <<>>
         /\ files' = closeWith(fs)
         /\ pc' = IF Caught(exc) THEN "cleanups" ELSE "aborted"
         /\ hist' = [hist EXCEPT ![cur].bodyExc = exc]

Raise(exc) == RaiseWith(files, exc)

\* a statement that completes normally, leaving the files as fs
ContinueWith(fs) ==
    /\ files' = fs
    /\ UNCHANGED <<outcome, scope, pc, hist>>

(* ------------------------------- Init ---------------------------------- *)
Init ==
    /\ klass \in [n : 0..MaxMethods, setUp : SetUps]
    /\ pc = "load"
    /\ cur = 0
    /\ inst = <<>>
    /\ locals = [fpin |-> FALSE]
    /\ scope = <<>>
    /\ loopIdx = 0
    /\ steps = 0
    /\ files = {}
    /\ outcome = NewOutcome
    /\ result = [testsRun |-> 0, failures |-> <<>>, errors |-> <<>>,
                 successes |-> <<>>]
    /\ summary = <<>>
    /\ cleanupLog = <<>>
    /\ hist = <<>>

(* ------------------------------ test() --------------------------------- *)
LoadTests ==
    /\ pc = "load"
    /\ inst' = [i \in 1..klass.n |-> NewInstance]
    /\ hist' = [i \in 1..klass.n |-> NewHist]
    /\ pc' = "run"
    /\ UNCHANGED <<klass, cur, locals, scope, loopIdx, steps, files, outcome,
                   result, summary, cleanupLog>>

\* TestCase.run: result.startTest(self); outcome = _Outcome(result)
StartTest ==
    /\ pc = "run"
    /\ cur < klass.n
    /\ cur' = cur + 1
    /\ result' = [result EXCEPT !.testsRun = @ + 1]
    /\ outcome' = NewOutcome
    /\ locals' = [fpin |-> FALSE]
    /\ scope' = <<>>
    /\ loopIdx' = 0
    /\ pc' = "setUp"
    /\ UNCHANGED <<klass, inst, files, summary, cleanupLog, hist, steps>>


(* ------------------------------- setUp --------------------------------- *)
\* mutant: the test method is called whatever setUp did
RunsBodyAlways(out) == TRUE

\* `if outcome.success:` guards the call of the test method
RunsBody(out) == out.success

\* self.addCleanup(function): appended to the instance's _cleanups
addCleanup(i, fn) ==
    [i EXCEPT !.cleanups = Append(@, [id |-> i.nreg + 1, fn |-> fn]),
              !.nreg = @ + 1]

NewFile(var) == [owner |-> cur, var |-> var, nread |-> 0]

AfterSetUp(out) ==
    /\ outcome' = out
    /\ pc' = IF RunsBody(out) THEN "body" ELSE "cleanups"
    /\ hist' = [hist EXCEPT ![cur].setUp = IF out.success THEN "ok" ELSE "raised",
                            ![cur].body = RunsBody(out)]

\* unittest.TestCase.setUp: the classes without a setUp of their own
SetUpDefault ==
    /\ pc = "setUp"
    /\ klass.setUp = "none"
    /\ AfterSetUp(outcome)
    /\ UNCHANGED <<klass, cur, inst, locals, scope, loopIdx, steps, files,
                   result, summary, cleanupLog>>

\* TestMultipleEquality.setUp: self.value = 1
SetUpValue ==
    /\ pc = "setUp"
    /\ klass.setUp = "value"
    /\ inst' = [inst EXCEPT ![self].value = <<1>>]
    /\ AfterSetUp(outcome)
    /\ UNCHANGED <<klass, cur, locals, scope, loopIdx, steps, files,
                   result, summary, cleanupLog>>

\* TestDoubleRead.setUp: the cleanup is registered, then the file is opened;
\* open raises OSError where there is no /dev/zero
SetUpFpin ==
    /\ pc = "setUp"
    /\ klass.setUp = "fpin"
    /\ \E opened \in BOOLEAN :
          IF opened
          THEN /\ inst' = [inst EXCEPT
                             ![self] = [addCleanup(@, "self") EXCEPT !.fpin = TRUE]]
               /\ files' = files \cup {NewFile("self")}
               /\ AfterSetUp(outcome)
          ELSE /\ inst' = [inst EXCEPT ![self] = addCleanup(@, "self")]
               /\ files' = files
               /\ AfterSetUp(Catch(outcome, <<>>, "OSError"))
    /\ UNCHANGED <<klass, cur, locals, scope, loopIdx, steps,
                   result, summary, cleanupLog>>

(* --------------------- the statements of a test body ------------------- *)
\* between two iterations of the for loop only the next subTest block starts
LoopRunning == loopIdx > 0 /\ loopIdx < Len(Lengths) /\ scope = <<>>

Statement ==
    /\ pc = "body"
    /\ ~LoopRunning
    /\ steps < MaxSteps
    /\ steps' = steps + 1

\* self.addCleanup(lambda: fpin.close())
AddCleanup ==
    /\ pc = "body"
    /\ scope = <<>>
    /\ loopIdx = 0
    /\ steps < MaxSteps
    /\ steps' = steps + 1
    /\ inst' = [inst EXCEPT ![self] = addCleanup(@, "local")]
    /\ UNCHANGED <<klass, pc, cur, locals, scope, loopIdx, files,
                   outcome, result, summary, cleanupLog, hist>>

\* fpin = open("/dev/zero"), after its cleanup was registered
Open ==
    /\ pc = "body"
    /\ scope = <<>>
    /\ loopIdx = 0
    /\ ~locals.fpin
    /\ \E c \in 1..Len(inst[self].cleanups) : inst[self].cleanups[c].fn = "local"
    /\ \E opened \in BOOLEAN :
          IF opened
          THEN /\ locals' = [fpin |-> TRUE]
               /\ files' = files \cup {NewFile("local")}
               /\ UNCHANGED <<outcome, scope, pc, hist>>
          ELSE /\ locals' = locals
               /\ Raise("OSError")
    /\ steps < MaxSteps
    /\ steps' = steps + 1
    /\ UNCHANGED <<klass, cur, inst, loopIdx, result, summary, cleanupLog>>

\* 1/0
ZeroDivision ==
    /\ Statement
    /\ scope = <<>>
    /\ Raise("ZeroDivisionError")
    /\ UNCHANGED <<klass, cur, inst, locals, loopIdx, result, summary, cleanupLog>>

\* assert_that(actual, equal_to(expected)): AssertionError unless they match
assert_that(fs, actual, expected) ==
    IF actual = expected THEN ContinueWith(fs) ELSE RaiseWith(fs, failureException)

\* assert_that(1, equal_to(0)); assert_that(self.value, equal_to(0))
AssertEqual ==
    /\ Statement
    /\ ~InWith
    /\ \E expected \in Expected :
          IF inst[self].value # <<>>
          THEN assert_that(files, inst[self].value[1], expected)
          ELSE assert_that(files, 1, expected)
    /\ UNCHANGED <<klass, cur, inst, locals, loopIdx, result, summary, cleanupLog>>

\* len(fpin.read(length)) on /dev/zero, which never runs out
ReadZero(length) == length

\* len("")
EmptyLen == Len(<<>>)

\* the files the body can read: the one bound to fpin or self.fpin, or the
\* one of the enclosing `with open(...) as fpin`
Readable ==
    IF InWith THEN WithFiles
    ELSE {f \in files : /\ f.owner = cur
                        /\ \/ f.var = "local" /\ locals.fpin
                           \/ f.var = "self" /\ inst[self].fpin}

\* assert_that(fpin.read(length), equal_to(""))
Read ==
    /\ Statement
    /\ \E f \in Readable :
       \E length \in (IF InSubTest THEN {scope[1].label} ELSE ReadLengths) :
          LET g == [f EXCEPT !.nread = @ + ReadZero(length)]
              moved == (files \ {f}) \cup {g}
          IN  assert_that(moved, ReadZero(length), EmptyLen)
    /\ UNCHANGED <<klass, cur, inst, locals, loopIdx, result, summary, cleanupLog>>

(* ------------------------- subTest and with --------------------------- *)
\* for length in (1, 4, 8): with self.subTest(length=length):
EnterSubTest ==
    /\ pc = "body"
    /\ scope = <<>>
    /\ loopIdx < Len(Lengths)
    /\ scope' = <<[kind |-> "subTest", label |-> Lengths[loopIdx + 1]]>>
    /\ loopIdx' = loopIdx + 1
    /\ UNCHANGED <<klass, pc, cur, inst, locals, steps, files, outcome,
                   result, summary, cleanupLog, hist>>

\* with open("/dev/zero") as fpin: inside a subTest block
EnterWith ==
    /\ pc = "body"
    /\ Len(scope) = 1
    /\ InSubTest
    /\ steps < MaxSteps
    /\ \E opened \in BOOLEAN :
          IF opened
          THEN /\ scope' = Append(scope, [kind |-> "with", label |-> scope[1].label])
               /\ files' = files \cup {NewFile("with")}
               /\ UNCHANGED <<outcome, pc, hist>>
          ELSE Raise("OSError")
    /\ steps' = steps + 1
    /\ UNCHANGED <<klass, cur, inst, locals, loopIdx, result, summary,
                   cleanupLog>>

\* the end of a with block reached without an exception: `with open` closes
\* its file; subTest, when an earlier subtest failed, stops the test only
\* under failfast
ExitScope ==
    /\ pc = "body"
    /\ scope # <<>>
    /\ IF InWith
       THEN /\ files' = closeWith(files)
            /\ pc' = pc
       ELSE /\ files' = files
            /\ pc' = IF SubTestStops /\ ~outcome.success THEN "cleanups" ELSE "body"
    /\ scope' = SubSeq(scope, 1, Len(scope) - 1)
    /\ UNCHANGED <<klass, cur, inst, locals, loopIdx, steps, outcome, result,
                   summary, cleanupLog, hist>>

\* the test method returns; tearDown is unittest's, which does nothing
BodyReturn ==
    /\ pc = "body"
    /\ scope = <<>>
    /\ ~LoopRunning
    /\ pc' = "cleanups"
    /\ UNCHANGED <<klass, cur, inst, locals, scope, loopIdx, steps, files,
                   outcome, result, summary, cleanupLog, hist>>

(* ------------------------------ doCleanups ----------------------------- *)
\* mutant: cleanups taken from the front, in registration order
FirstCleanup(cl) == 1

\* self._cleanups.pop(): the position of the cleanup to run next
NextCleanup(cl) == Len(cl)

\* mutant: a run that never calls doCleanups
NoCleanupsLeft(cl) == FALSE

\* doCleanups' loop condition: `while self._cleanups`
CleanupsLeft(cl) == cl # <<>>

\* mutant: an exception of a cleanup is dropped
CleanupSwallow(out, exc) == out

\* doCleanups runs each cleanup under testPartExecutor too
CleanupCatch(out, exc) == Catch(out, <<>>, exc)

Without(cl, k) == SubSeq(cl, 1, k - 1) \o SubSeq(cl, k + 1, Len(cl))

\* lambda: fpin.close() or lambda: self.fpin.close(): closes the file when
\* the name is bound, else NameError / AttributeError
DoCleanup ==
    /\ pc = "cleanups"
    /\ CleanupsLeft(inst[self].cleanups)
    /\ LET cl == inst[self].cleanups
           k == NextCleanup(cl)
           c == cl[k]
           bound == IF c.fn = "self" THEN inst[self].fpin ELSE locals.fpin
       IN  /\ inst' = [inst EXCEPT ![self].cleanups = Without(cl, k)]
           /\ cleanupLog' = Append(cleanupLog, [test |-> cur, id |-> c.id])
           /\ IF bound
              THEN /\ files' = {f \in files : ~(f.owner = cur /\ f.var = c.fn)}
                   /\ UNCHANGED <<outcome, hist>>
              ELSE /\ files' = files
                   /\ outcome' = CleanupCatch(outcome,
                         IF c.fn = "self" THEN "AttributeError" ELSE "NameError")
                   /\ hist' = [hist EXCEPT ![cur].cleanupRaised =
                                 IF @ # "no" THEN @
                                 ELSE IF outcome.success THEN "passed"
                                 ELSE "failed"]
    /\ UNCHANGED <<klass, pc, cur, locals, scope, loopIdx, steps, result, summary>>

(* ------------------------- reporting the outcome ----------------------- *)
\* mutant: the two classifications swapped
IsFailureSwapped(exc) == exc # failureException

\* issubclass(exc_info[0], self.failureException)
IsFailure(exc) == exc = failureException

Records(errs) == [k \in 1..Len(errs) |->
                    [test |-> cur, sub |-> errs[k].sub, exc |-> errs[k].exc]]

\* _feedErrorsToResult: addFailure / addError, addSubTest for a subtest
feedErrorsToResult(res, errs) ==
    [res EXCEPT
       !.failures = @ \o SelectSeq(Records(errs), LAMBDA r : IsFailure(r.exc)),
       !.errors = @ \o SelectSeq(Records(errs), LAMBDA r : ~IsFailure(r.exc))]

\* mutant: addSuccess called for every test
SucceededAlways(out) == TRUE

\* `if outcome.success: result.addSuccess(self)`
Succeeded(out) == out.success

addSuccess(res) == [res EXCEPT !.successes = Append(@, cur)]

\* the end of TestCase.run, once doCleanups has returned; result.stopTest
FinishTest ==
    /\ pc = "cleanups"
    /\ ~CleanupsLeft(inst[self].cleanups)
    /\ result' = LET fed == feedErrorsToResult(result, outcome.errors)
                 IN  IF Succeeded(outcome) THEN addSuccess(fed) ELSE fed
    /\ hist' = [hist EXCEPT ![cur].finished = TRUE]
    /\ pc' = "run"
    /\ UNCHANGED <<klass, cur, inst, locals, scope, loopIdx, steps, files,
                   outcome, summary, cleanupLog>>

\* TextTestRunner.run after the suite: "Ran N tests", then OK or
\* FAILED (failures=.., errors=..)
PrintSummary ==
    /\ pc = "run"
    /\ cur = klass.n
    /\ summary' = <<[ran |-> result.testsRun,
                     failures |-> Len(result.failures),
                     errors |-> Len(result.errors),
                     ok |-> result.failures = <<>> /\ result.errors = <<>>]>>
    /\ pc' = "done"
    /\ UNCHANGED <<klass, cur, inst, locals, scope, loopIdx, steps, files,
                   outcome, result, cleanupLog, hist>>

Next ==
    \/ LoadTests
    \/ StartTest
    \/ SetUpDefault
    \/ SetUpValue
    \/ SetUpFpin
    \/ AddCleanup
    \/ Open
    \/ ZeroDivision
    \/ AssertEqual
    \/ Read
    \/ EnterSubTest
    \/ EnterWith
    \/ ExitScope
    \/ BodyReturn
    \/ DoCleanup
    \/ FinishTest
    \/ PrintSummary

Spec == Init /\ [][Next]_vars

\* the runner is one sequential thread: it always takes its next step
FairSpec == Spec /\ WF_vars(Next)

(* ============================ properties =============================== *)
Tests == 1..klass.n
Loaded == pc # "load"
Finished(m) == Loaded /\ hist[m].finished

\* the records the report holds for test m
FailuresOf(m) == SelectSeq(result.failures, LAMBDA r : r.test = m)
ErrorsOf(m) == SelectSeq(result.errors, LAMBDA r : r.test = m)
SuccessesOf(m) == SelectSeq(result.successes, LAMBDA t : t = m)
CleanupsOf(m) == SelectSeq(cleanupLog, LAMBDA c : c.test = m)
Has(seq, sub, exc) == \E k \in 1..Len(seq) : seq[k].sub = sub /\ seq[k].exc = exc
CleanupErrors == {"NameError", "AttributeError"}

\* the outcomes one run reports: its failure records, error records and passes
NumOutcomes == Len(result.failures) + Len(result.errors) + Len(result.successes)

(* C1, as stated: a run over a class of N test methods reports exactly N
   outcomes, one per method. *)
C1_ExactlyNOutcomes == pc = "done" => NumOutcomes = klass.n

(* C1, amended: a run over a class of N test methods runs and counts exactly
   N tests ("Ran N tests"), and each method is reported either as one pass
   or by one or more failure/error records, never both and never neither;
   the records can therefore outnumber the methods. *)
C1_RanNTests ==
    pc = "done" =>
       /\ result.testsRun = klass.n
       /\ summary[1].ran = klass.n
       /\ summary[1].failures + summary[1].errors + Len(result.successes) >= klass.n
       /\ \A m \in Tests :
             LET records == Len(FailuresOf(m)) + Len(ErrorsOf(m))
             IN  \/ Len(SuccessesOf(m)) = 1 /\ records = 0
                 \/ Len(SuccessesOf(m)) = 0 /\ records >= 1

C1_Witness ==
    /\ pc = "done"
    /\ klass.n = 2
    /\ Len(SuccessesOf(1)) = 1
    /\ Len(FailuresOf(2)) + Len(ErrorsOf(2)) >= 2

(* C2: an AssertionError escaping a test body is recorded as a failure and
   any other exception escaping it as an error; no failure record holds
   another exception and no error record holds an AssertionError. *)
C2_Classification ==
    /\ \A k \in 1..Len(result.failures) : result.failures[k].exc = failureException
    /\ \A k \in 1..Len(result.errors) : result.errors[k].exc # failureException
    /\ \A m \in Tests :
          Finished(m) /\ hist[m].bodyExc # "None" =>
             IF hist[m].bodyExc = failureException
             THEN /\ Has(FailuresOf(m), <<>>, failureException)
                  /\ ~Has(ErrorsOf(m), <<>>, failureException)
             ELSE /\ Has(ErrorsOf(m), <<>>, hist[m].bodyExc)
                  /\ ~Has(FailuresOf(m), <<>>, hist[m].bodyExc)

C2_Witness ==
    /\ pc = "done"
    /\ klass.n = 2
    /\ hist[1].bodyExc = failureException
    /\ hist[2].bodyExc = "ZeroDivisionError"

(* C3: the cleanups a test registered, in setUp or in its body, run only
   once setUp and body are over, each exactly once, last registered first,
   whether the body returned or raised. *)
Descending(from, to) == [k \in 1..(from - to) |-> from + 1 - k]
Ids(seq) == [k \in 1..Len(seq) |-> seq[k].id]

C3_CleanupsOnceInReverse ==
    Loaded =>
      \A m \in Tests :
         LET ran == Ids(CleanupsOf(m))
             left == Ids(inst[Instance(m)].cleanups)
             nreg == inst[Instance(m)].nreg
         IN  /\ (m = cur /\ pc \in {"setUp", "body"}) => ran = <<>>
             /\ m > cur => ran = <<>>
             /\ ran = Descending(nreg, nreg - Len(ran))
             /\ left = [k \in 1..(nreg - Len(ran)) |-> k]
             /\ Finished(m) => ran = Descending(nreg, 0)

C3_Witness ==
    /\ pc = "done"
    /\ klass.n = 2
    /\ Ids(CleanupsOf(1)) = <<2, 1>>
    /\ hist[1].bodyExc # "None"
    /\ Ids(CleanupsOf(2)) = <<1>>
    /\ hist[2].body /\ hist[2].bodyExc = "None"

(* C4: an assertion failing inside a subTest block is recorded for
   (method, label) and stops neither the loop nor the method: every label
   of the loop is still entered, each failing label gets its own failure
   record, and the method is not reported as passed. *)
SubRecords(seq) == SelectSeq(seq, LAMBDA r : r.sub # <<>>)

C4_SubTestFailuresCollected ==
    Loaded =>
      \A m \in Tests :
         hist[m].subFailed # {} =>
            /\ (m = cur /\ pc \notin {"body", "run", "done"}) =>
                  /\ pc = "cleanups"
                  /\ loopIdx = Len(Lengths)
            /\ Finished(m) =>
                  /\ \A label \in hist[m].subFailed :
                        Has(FailuresOf(m), <<label>>, failureException)
                  /\ Len(SubRecords(FailuresOf(m))) = Cardinality(hist[m].subFailed)
                  /\ SuccessesOf(m) = <<>>

C4_Witness ==
    /\ pc = "done"
    /\ klass.n >= 1
    /\ hist[1].subFailed = {1, 4, 8}
    /\ Len(FailuresOf(1)) = 3
    /\ hist[1].bodyExc = "None"

(* C5: whatever the tests do, the run goes on to its end: every test of the
   class is run to its finish and the summary is printed. *)
C5_RunReachesEnd ==
    <>(/\ pc = "done"
       /\ summary # <<>>
       /\ result.testsRun = klass.n
       /\ \A m \in Tests : hist[m].finished)

C5_Witness ==
    /\ pc = "done"
    /\ klass.n = 2
    /\ hist[1].bodyExc = "ZeroDivisionError"
    /\ hist[2].finished
    /\ hist[2].body
    /\ summary # <<>>

(* C6, as stated: a cleanup that raises never changes the method's outcome;
   a method whose body passed is still reported as passed. *)
C6_CleanupNeverEscalates ==
    Loaded =>
      \A m \in Tests :
         Finished(m) /\ hist[m].cleanupRaised = "passed" =>
            /\ Len(SuccessesOf(m)) = 1
            /\ ErrorsOf(m) = <<>>

(* C6, amended: a cleanup that raises adds a record of its own to the
   method and removes none: what setUp, the body and its subtests raised
   stays recorded; but a method whose body passed is then not reported as
   passed, it is reported with the cleanup's exception as an error. *)
C6_CleanupErrorIsRecorded ==
    Loaded =>
      \A m \in Tests :
         Finished(m) /\ hist[m].cleanupRaised # "no" =>
            /\ \E k \in 1..Len(ErrorsOf(m)) :
                  /\ ErrorsOf(m)[k].exc \in CleanupErrors
                  /\ ErrorsOf(m)[k].sub = <<>>
            /\ SuccessesOf(m) = <<>>
            /\ hist[m].cleanupRaised = "passed" =>
                  /\ FailuresOf(m) = <<>>
                  /\ \A k \in 1..Len(ErrorsOf(m)) : ErrorsOf(m)[k].exc \in CleanupErrors
            /\ hist[m].cleanupRaised = "failed" =>
                  /\ hist[m].bodyExc = failureException =>
                        Has(FailuresOf(m), <<>>, failureException)
                  /\ hist[m].bodyExc \notin {"None", failureException} =>
                        Has(ErrorsOf(m), <<>>, hist[m].bodyExc)
                  /\ hist[m].setUp = "raised" => Has(ErrorsOf(m), <<>>, "OSError")
                  /\ \A label \in hist[m].subFailed :
                        Has(FailuresOf(m), <<label>>, failureException)

C6_Witness ==
    /\ pc = "done"
    /\ klass.n = 2
    /\ hist[1].cleanupRaised = "passed"
    /\ hist[2].cleanupRaised = "failed"
    /\ hist[2].bodyExc = failureException

C8_FreshInstance ==
    Loaded =>
      /\ \A m \in Tests : m > cur => inst[m] = NewInstance
      /\ pc = "setUp" => inst[self] = NewInstance
      /\ (pc = "body" /\ klass.setUp = "value") => inst[self].value = <<1>>
      /\ (pc = "body" /\ klass.setUp = "fpin") =>
            /\ inst[self].fpin
            /\ Ids(inst[self].cleanups)[1] = 1
      /\ pc \in {"setUp", "body", "cleanups"} =>
            inst[self].nreg = Len(inst[self].cleanups) + Len(CleanupsOf(cur))

C8_Witness ==
    /\ pc = "body"
    /\ cur = 2
    /\ klass.setUp = "value"
    /\ inst[1].nreg > 0
    /\ inst[2].value = <<1>>
    /\ inst[2].nreg = 0

(* C9: the tests run one after another: while a test is in setUp, body or
   cleanups every earlier test is finished, with no cleanup left and no file
   open, and no later test has started; the files open are the running
   test's own. *)
C9_Sequential ==
    Loaded =>
      /\ \A f \in files : f.owner = cur /\ pc \in {"setUp", "body", "cleanups"}
      /\ pc \in {"run", "done", "setUp"} => files = {}
      /\ \A m \in Tests :
            /\ m < cur => hist[m].finished
            /\ m # cur => inst[m].cleanups = <<>>
            /\ m > cur => hist[m] = NewHist

C9_Witness ==
    /\ pc = "body"
    /\ cur = 2
    /\ klass.setUp = "fpin"
    /\ inst[1].fpin
    /\ \E f \in files : f.owner = 2 /\ f.var = "self"
    /\ Len(CleanupsOf(1)) = 1

(* C10: a fixture whose cleanup the method registered stays open through
   all the subTest blocks, also after one of them failed: no cleanup runs
   before the body is over; the file of a `with open` inside a subTest
   block is closed as soon as that block is left. *)
C10_FixtureScopes ==
    Loaded =>
      /\ pc = "body" =>
            /\ CleanupsOf(cur) = <<>>
            /\ locals.fpin => \E f \in files : f.owner = cur /\ f.var = "local"
            /\ inst[self].fpin => \E f \in files : f.owner = cur /\ f.var = "self"
      /\ CleanupsOf(cur) # <<>> => loopIdx \in {0, Len(Lengths)}
      /\ WithFiles # {} => pc = "body" /\ InWith
      /\ Cardinality(WithFiles) <= 1

C10_Witness ==
    /\ pc = "body"
    /\ InSubTest
    /\ scope[1].label = 4
    /\ hist[cur].subFailed = {1}
    /\ locals.fpin
    /\ \E f \in files : f.owner = cur /\ f.var = "local" /\ f.nread = 1

====
